---- MODULE Spec2Model ----
(***************************************************************************)
(* Cart consistency engine of the e-commerce server                        *)
(* (src/controllers/cart.controller.js): the cart collection, the users'   *)
(* shopping_cart mirror and the products the cart handlers read.           *)
(*                                                                         *)
(* A handler that runs in a database transaction is one action: its writes *)
(* are staged, become visible together at commitTransaction and are        *)
(* discarded by abortTransaction.  A database call of the handler may      *)
(* throw; which call throws is an input of the action (fault).             *)
(***************************************************************************)
EXTENDS Integers, FiniteSets, Sequences, TLC

VARIABLES products, cart, shopping_cart, mylist, last, nOps, reqs

vars == <<products, cart, shopping_cart, mylist, last, nOps, reqs>>

(***************************************************************************)
(* Bounds of the model.                                                    *)
(***************************************************************************)
MaxOps == 2
MaxItems == 4
MaxRace == 2

Users == {"u1", "u2"}
Products == {"p1", "p2"}
StockVals == {0, 2, 150}
PriceVals == {0, 10}

\* a well-formed ObjectId that names no stored document
GhostProduct == "ghost"
\* req.body.productId absent
NoProductId == ""
\* a string that is not an ObjectId
BadProductId == "bad"
ProductIdInputs == Products \cup {GhostProduct, NoProductId, BadProductId}

ItemIds == 1..MaxItems
BadItemId == 0
ItemIdInputs == ItemIds \cup {BadItemId}

(***************************************************************************)
(* JavaScript numbers, kept in halves so that a fraction is representable: *)
(* x2 is twice the value.                                                  *)
(***************************************************************************)
NaN == [nan |-> TRUE, x2 |-> 0]
Num(n) == [nan |-> FALSE, x2 |-> 2 * n]

\* what a request body can carry as quantity
Missing == [kind |-> "missing", x2 |-> 0]
Text == [kind |-> "text", x2 |-> 0]
Numeric(x2) == [kind |-> "number", x2 |-> x2]
QuantityInputs ==
  {Missing, Text} \cup {Numeric(x2) : x2 \in {-2, 0, 2, 3, 4, 198, 202}}

\* Number(v)
Number(raw) == IF raw.kind = "number" THEN [nan |-> FALSE, x2 |-> raw.x2] ELSE NaN
\* JavaScript truthiness of a number
Truthy(n) == ~n.nan /\ n.x2 # 0
\* Number.isInteger
IsInteger(n) == ~n.nan /\ n.x2 % 2 = 0
\* n < k and n > k for an integer k (comparisons with NaN are false)
Lt(n, k) == ~n.nan /\ n.x2 < 2 * k
Gt(n, k) == ~n.nan /\ n.x2 > 2 * k
ToInt(n) == n.x2 \div 2

MAX_QUANTITY == 100
MIN_QUANTITY == 1

Statuses == {"active", "saved_for_later", "out_of_stock"}

(***************************************************************************)
(* Collections.                                                            *)
(***************************************************************************)
ProductExists(productId) == productId \in Products /\ products[productId].exists

\* mongoose.Types.ObjectId.isValid
IsValidProductId(productId) == productId \notin {NoProductId, BadProductId}
IsValidItemId(id) == id # BadItemId

\* CartProductModel.findOne({ userId, productId })
FindByUserProduct(c, userId, productId) ==
  {i \in c : i.userId = userId /\ i.productId = productId}

\* a plausible slip: the item is looked up by its id alone
FindOwned_AnyUser(c, id, userId) == {i \in c : i.id = id}

\* CartProductModel.findOne({ _id: id, userId })
FindOwned(c, id, userId) == {i \in c : i.id = id /\ i.userId = userId}

\* the _id a new document gets
NewId(c) == CHOOSE id \in 1..(Cardinality(c) + 1) : \A i \in c : i.id # id

\* the unique index { userId: 1, productId: 1 }
ViolatesUniqueIndex(c, item) ==
  \E i \in c : i.userId = item.userId /\ i.productId = item.productId /\ i.id # item.id

(***************************************************************************)
(* Transactions and handler outcomes.  txn is the state of the session's   *)
(* transaction when the handler leaves its try/catch: "in_progress" (left  *)
(* open, to be discarded by endSession), "aborted" or "committed".         *)
(***************************************************************************)
Faults == {"none", "read", "save", "mirror", "populate"}

\* session.abortTransaction() throws unless a transaction is in progress
AbortThrows(txn) == txn # "in_progress"

\* no session was started (a handler without a transaction)
NoSession == [started |-> FALSE, ended |-> FALSE, txn |-> "none"]

\* a plausible slip: the handler has no finally block
EndSession_Leak(txn) == [started |-> TRUE, ended |-> FALSE, txn |-> txn]

\* finally { session.endSession() }: the session is ended, and a transaction
\* still in progress is aborted with it
EndSession(txn) ==
  [started |-> TRUE, ended |-> TRUE,
   txn |-> IF txn = "in_progress" THEN "aborted" ELSE txn]

\* return res.status(code).json(...) with nothing committed
Reply(code, txn) ==
  [code |-> code, envelope |-> TRUE, txn |-> txn, thrown |-> "none",
   cart |-> cart, sc |-> shopping_cart]

\* commitTransaction, then return res.status(code).json(...)
Committed(code, c, sc) ==
  [code |-> code, envelope |-> TRUE, txn |-> "committed", thrown |-> "none",
   cart |-> c, sc |-> sc]

\* a plausible slip: the writes are made outside the session, so the abort
\* discards nothing
CatchBlock_NoRollback(txn, at, code, c, sc) ==
  [code |-> code, envelope |-> TRUE, txn |-> "aborted", thrown |-> at,
   cart |-> c, sc |-> sc]

\* catch (error) { await session.abortTransaction(); ... return res.status(code) }
\* c, sc are the staged collections; they are visible only if txn is committed.
\* When abortTransaction itself throws, the error leaves the handler and the
\* framework answers 500 outside the envelope.
CatchBlock(txn, at, code, c, sc) ==
  IF AbortThrows(txn)
  THEN [code |-> 500, envelope |-> FALSE, txn |-> txn, thrown |-> at,
        cart |-> IF txn = "committed" THEN c ELSE cart,
        sc |-> IF txn = "committed" THEN sc ELSE shopping_cart]
  ELSE [code |-> code, envelope |-> TRUE, txn |-> "aborted", thrown |-> at,
        cart |-> cart, sc |-> shopping_cart]

\* existingCartItem.save / cartItem.save: the document replaces the stored one
SaveItem(c, item) == {i \in c : i.id # item.id} \cup {item}

\* a plausible slip: the mirror write is left out
AddToSet_Skip(sc, userId, productId) == sc

\* $addToSet / $pull on User.shopping_cart
AddToSet(sc, userId, productId) ==
  [sc EXCEPT ![userId] = @ \cup {productId}]
\* a plausible slip: the set is left as it was
Pull_Skip(sc, userId, productIds) == sc

Pull(sc, userId, productIds) ==
  [sc EXCEPT ![userId] = @ \ productIds]

(***************************************************************************)
(* createCartItem (POST /api/cart/create).                                 *)
(***************************************************************************)
\* a plausible slip: the stock check is dropped
InsufficientStock_NoCheck(countInStock, quantity) == FALSE

\* product.countInStock < quantity
InsufficientStock(countInStock, quantity) == countInStock < quantity

\* const quantity = Number(req.body.quantity) || 1
AddQuantity(rawQuantity) ==
  IF Truthy(Number(rawQuantity)) THEN Number(rawQuantity) ELSE Num(1)

\* !Number.isInteger(quantity) || quantity < 1 || quantity > 100
QuantityOutOfRange(quantity) ==
  ~IsInteger(quantity) \/ Lt(quantity, MIN_QUANTITY) \/ Gt(quantity, MAX_QUANTITY)

\* a plausible slip: the merged total is not checked against the stock
MergeIntoExisting_NoStockCap(item, product, q, fault) ==
  LET newQuantity == item.quantity + q IN
  IF newQuantity > MAX_QUANTITY THEN Reply(400, "aborted")
  ELSE IF fault = "save" THEN CatchBlock("in_progress", "save", 500, cart, shopping_cart)
  ELSE Committed(200,
         SaveItem(cart, [item EXCEPT !.quantity = newQuantity,
                                     !.priceAtAdd = product.price,
                                     !.status = "active"]),
         shopping_cart)

\* a plausible slip: the quantity is replaced and the old price kept
MergeIntoExisting_Replace(item, product, q, fault) ==
  IF q > product.countInStock THEN Reply(400, "aborted")
  ELSE IF fault = "save" THEN CatchBlock("in_progress", "save", 500, cart, shopping_cart)
  ELSE Committed(200,
         SaveItem(cart, [item EXCEPT !.quantity = q, !.status = "active"]),
         shopping_cart)

\* the merge branch: an item for (userId, productId) exists
MergeIntoExisting(item, product, q, fault) ==
  LET newQuantity == item.quantity + q IN
  IF newQuantity > MAX_QUANTITY THEN Reply(400, "aborted")
  ELSE IF newQuantity > product.countInStock THEN Reply(400, "aborted")
  ELSE IF fault = "save" THEN CatchBlock("in_progress", "save", 500, cart, shopping_cart)
  ELSE Committed(200,
         SaveItem(cart, [item EXCEPT !.quantity = newQuantity,
                                     !.priceAtAdd = product.price,
                                     !.status = "active"]),
         shopping_cart)

\* the create branch: new CartProductModel({...}).save, then $addToSet
CreateNew(userId, productId, product, q, fault) ==
  LET cartItem == [id |-> NewId(cart), userId |-> userId, productId |-> productId,
                   quantity |-> q, priceAtAdd |-> product.price, status |-> "active"]
      c == SaveItem(cart, cartItem)
      sc == AddToSet(shopping_cart, userId, productId)
  IN
  IF fault = "save" THEN CatchBlock("in_progress", "save", 500, cart, shopping_cart)
  ELSE IF ViolatesUniqueIndex(cart, cartItem)
       THEN CatchBlock("in_progress", "duplicate_key", 409, cart, shopping_cart)
  ELSE IF fault = "mirror" THEN CatchBlock("in_progress", "mirror", 500, c, shopping_cart)
  ELSE IF fault = "populate" THEN CatchBlock("committed", "populate", 500, c, sc)
  ELSE Committed(201, c, sc)

createCartItem(userId, productId, rawQuantity, fault) ==
  LET quantity == AddQuantity(rawQuantity) IN
  IF productId = NoProductId THEN Reply(400, "in_progress")
  ELSE IF ~IsValidProductId(productId) THEN Reply(400, "in_progress")
  ELSE IF QuantityOutOfRange(quantity) THEN Reply(400, "in_progress")
  ELSE IF fault = "read" THEN CatchBlock("in_progress", "read", 500, cart, shopping_cart)
  ELSE IF ~ProductExists(productId) THEN Reply(404, "aborted")
  ELSE
    LET product == products[productId]
        q == ToInt(quantity)
        existing == FindByUserProduct(cart, userId, productId)
    IN
    IF InsufficientStock(product.countInStock, q) THEN Reply(400, "aborted")
    ELSE IF product.countInStock = 0 THEN Reply(400, "aborted")
    ELSE IF existing # {}
         THEN MergeIntoExisting(CHOOSE i \in existing : TRUE, product, q, fault)
         ELSE CreateNew(userId, productId, product, q, fault)

(***************************************************************************)
(* getCartItems (GET /api/cart/get): a read; it writes nothing.            *)
(***************************************************************************)
\* req.query.status absent: the destructuring default 'active' applies
AbsentStatus == "<absent>"
StatusQueryInputs == Statuses \cup {AbsentStatus, "", "bogus"}

\* const { status = 'active' } = req.query
StatusOrDefault(status) == IF status = AbsentStatus THEN "active" ELSE status

\* reduce((sum, item) => sum + f(item), 0)
RECURSIVE Sum(_)
Sum(f) ==
  IF DOMAIN f = {} THEN 0
  ELSE LET i == CHOOSE x \in DOMAIN f : TRUE IN
       f[i] + Sum([x \in DOMAIN f \ {i} |-> f[x]])

\* a plausible slip: an item that takes the whole stock is reported too
HasStockIssue_Inclusive(item, product) == product.countInStock <= item.quantity

\* product.countInStock === 0 || product.countInStock < item.quantity
HasStockIssue(item, product) ==
  product.countInStock = 0 \/ product.countInStock < item.quantity

\* product.price !== item.priceAtAdd
HasPriceChange(item, product) == product.price # item.priceAtAdd

\* item.productId?.price || item.priceAtAdd
CurrentPrice(item, product) == IF product.price # 0 THEN product.price ELSE item.priceAtAdd

NoReport ==
  [items |-> {}, stockIssues |-> {}, priceChanges |-> {}, subtotal |-> 0,
   estimatedTotal |-> 0]

getCartItems(userId, rawStatus, fault) ==
  LET status == StatusOrDefault(rawStatus)
      cartItems == {i \in cart : i.userId = userId /\ (status # "" => i.status = status)}
      validCartItems == {i \in cartItems : ProductExists(i.productId)}
      subtotal == [i \in validCartItems |-> i.priceAtAdd * i.quantity]
      estimatedTotal ==
        [i \in validCartItems |-> CurrentPrice(i, products[i.productId]) * i.quantity]
  IN
  IF status # "" /\ status \notin Statuses THEN [code |-> 400, thrown |-> "none", report |-> NoReport]
  ELSE IF fault = "read" THEN [code |-> 500, thrown |-> "read", report |-> NoReport]
  ELSE [code |-> 200, thrown |-> "none", report |->
         [items |-> {i.id : i \in validCartItems},
          stockIssues |->
            {[cartItemId |-> i.id, requestedQuantity |-> i.quantity,
              availableStock |-> products[i.productId].countInStock] :
               i \in {j \in validCartItems : HasStockIssue(j, products[j.productId])}},
          priceChanges |->
            {[cartItemId |-> i.id, oldPrice |-> i.priceAtAdd,
              newPrice |-> products[i.productId].price,
              difference |-> products[i.productId].price - i.priceAtAdd] :
               i \in {j \in validCartItems : HasPriceChange(j, products[j.productId])}},
          subtotal |-> Sum(subtotal),
          estimatedTotal |-> Sum(estimatedTotal)]]

(***************************************************************************)
(* updateCartItemQuantity (PUT /api/cart/update-quantity/:id).             *)
(***************************************************************************)
\* a plausible slip: the quantity is added to the stored one
SetQuantity_Additive(cartItem, q, product) ==
  [cartItem EXCEPT !.quantity = @ + q, !.priceAtAdd = product.price, !.status = "active"]

\* cartItem.quantity = quantity; cartItem.priceAtAdd = product.price;
\* cartItem.status = 'active'
SetQuantity(cartItem, q, product) ==
  [cartItem EXCEPT !.quantity = q, !.priceAtAdd = product.price, !.status = "active"]

updateCartItemQuantity(userId, id, rawQuantity, fault) ==
  LET quantity == Number(rawQuantity)
      found == FindOwned(cart, id, userId)
  IN
  IF ~IsValidItemId(id) THEN Reply(400, "in_progress")
  ELSE IF ~Truthy(quantity) THEN Reply(400, "in_progress")
  ELSE IF QuantityOutOfRange(quantity) THEN Reply(400, "in_progress")
  ELSE IF fault = "read" THEN CatchBlock("in_progress", "read", 500, cart, shopping_cart)
  ELSE IF found = {} THEN Reply(404, "aborted")
  ELSE
    LET cartItem == CHOOSE i \in found : TRUE
        q == ToInt(quantity)
    IN
    IF ~ProductExists(cartItem.productId) THEN Reply(404, "aborted")
    ELSE
      LET product == products[cartItem.productId]
          c == SaveItem(cart, SetQuantity(cartItem, q, product))
      IN
      IF cartItem.quantity = q THEN Reply(200, "aborted")
      ELSE IF product.countInStock = 0 THEN Reply(400, "aborted")
      ELSE IF q > product.countInStock THEN Reply(400, "aborted")
      ELSE IF fault = "save" THEN CatchBlock("in_progress", "save", 500, cart, shopping_cart)
      ELSE IF fault = "populate" THEN CatchBlock("committed", "populate", 500, c, shopping_cart)
      ELSE Committed(200, c, shopping_cart)

(***************************************************************************)
(* incrementCartQuantity, decrementCartQuantity (PATCH /api/cart/:id/...). *)
(***************************************************************************)
\* a plausible slip: the stock check is made on the quantity before the increment
StockReached_OffByOne(quantity, countInStock) == quantity > countInStock

\* cartItem.quantity + 1 > product.countInStock
StockReached(quantity, countInStock) == quantity + 1 > countInStock

\* a plausible slip: the floor is checked with < instead of <=
AtMinimum_Below(quantity) == quantity < MIN_QUANTITY

\* cartItem.quantity <= 1
AtMinimum(quantity) == quantity <= MIN_QUANTITY

\* a plausible slip: the increment also makes the item active
Increment_Activate(cartItem) ==
  [cartItem EXCEPT !.quantity = @ + 1, !.status = "active"]

\* cartItem.quantity += 1
Increment(cartItem) == [cartItem EXCEPT !.quantity = @ + 1]

incrementCartQuantity(userId, id, fault) ==
  LET found == FindOwned(cart, id, userId) IN
  IF ~IsValidItemId(id) THEN Reply(400, "in_progress")
  ELSE IF fault = "read" THEN CatchBlock("in_progress", "read", 500, cart, shopping_cart)
  ELSE IF found = {} THEN Reply(404, "aborted")
  ELSE
    LET cartItem == CHOOSE i \in found : TRUE
        c == SaveItem(cart, Increment(cartItem))
    IN
    IF cartItem.quantity >= MAX_QUANTITY THEN Reply(400, "aborted")
    ELSE IF ~ProductExists(cartItem.productId) THEN Reply(404, "aborted")
    ELSE IF StockReached(cartItem.quantity, products[cartItem.productId].countInStock)
         THEN Reply(400, "aborted")
    ELSE IF fault = "save" THEN CatchBlock("in_progress", "save", 500, cart, shopping_cart)
    ELSE IF fault = "populate" THEN CatchBlock("committed", "populate", 500, c, shopping_cart)
    ELSE Committed(200, c, shopping_cart)

decrementCartQuantity(userId, id, fault) ==
  LET found == FindOwned(cart, id, userId) IN
  IF ~IsValidItemId(id) THEN Reply(400, "in_progress")
  ELSE IF fault = "read" THEN CatchBlock("in_progress", "read", 500, cart, shopping_cart)
  ELSE IF found = {} THEN Reply(404, "aborted")
  ELSE
    LET cartItem == CHOOSE i \in found : TRUE
        c == SaveItem(cart, [cartItem EXCEPT !.quantity = @ - 1])
    IN
    IF AtMinimum(cartItem.quantity) THEN Reply(400, "aborted")
    ELSE IF fault = "save" THEN CatchBlock("in_progress", "save", 500, cart, shopping_cart)
    ELSE IF fault = "populate" THEN CatchBlock("committed", "populate", 500, c, shopping_cart)
    ELSE Committed(200, c, shopping_cart)

(***************************************************************************)
(* deleteCartItem, clearCart, deleteCartItemsBatch.                        *)
(***************************************************************************)
deleteCartItem(userId, id, fault) ==
  LET found == FindOwned(cart, id, userId) IN
  IF ~IsValidItemId(id) THEN Reply(400, "in_progress")
  ELSE IF fault = "read" THEN CatchBlock("in_progress", "read", 500, cart, shopping_cart)
  ELSE IF found = {} THEN Reply(404, "aborted")
  ELSE
    LET cartItem == CHOOSE i \in found : TRUE
        c == cart \ found
        sc == Pull(shopping_cart, userId, {cartItem.productId})
    IN
    IF fault = "save" THEN CatchBlock("in_progress", "save", 500, cart, shopping_cart)
    ELSE IF fault = "mirror" THEN CatchBlock("in_progress", "mirror", 500, c, shopping_cart)
    ELSE Committed(200, c, sc)

\* req.query.status absent
NoScope == ""
ScopeInputs == Statuses \cup {NoScope, "bogus"}

\* a plausible slip: the status is left out of the query
DeleteQuery_AnyStatus(c, userId, status) == {i \in c : i.userId = userId}

\* deleteQuery = { userId }, with status when one is given
DeleteQuery(c, userId, status) ==
  {i \in c : i.userId = userId /\ (status # NoScope => i.status = status)}

clearCart(userId, status, fault) ==
  LET itemsToDelete == DeleteQuery(cart, userId, status)
      c == cart \ itemsToDelete
      sc == IF status = NoScope
            THEN [shopping_cart EXCEPT ![userId] = {}]
            ELSE Pull(shopping_cart, userId, {i.productId : i \in itemsToDelete})
  IN
  IF status # NoScope /\ status \notin Statuses THEN Reply(400, "aborted")
  ELSE IF fault = "read" THEN CatchBlock("in_progress", "read", 500, cart, shopping_cart)
  ELSE IF itemsToDelete = {} THEN Reply(404, "aborted")
  ELSE IF fault = "save" THEN CatchBlock("in_progress", "save", 500, cart, shopping_cart)
  ELSE IF fault = "mirror" THEN CatchBlock("in_progress", "mirror", 500, c, shopping_cart)
  ELSE Committed(200, c, sc)

MAX_BATCH == 50

\* cartItemIds: the set of ids the array holds and the array's length (an array
\* may repeat an id, so its length is at least the number of ids)
BatchInputs ==
  {[ids |-> ids, length |-> n] :
     ids \in {x \in SUBSET ItemIdInputs : Cardinality(x) <= 2},
     n \in {0, 1, 2, MAX_BATCH + 1}}

\* a plausible slip: no product id is taken from the items found
ProductIdsOf_None(cartItems) == {}

\* cartItems.map(item => item.productId)
ProductIdsOf(cartItems) == {i.productId : i \in cartItems}

deleteCartItemsBatch(userId, cartItemIds, fault) ==
  LET cartItems == {i \in cart : i.id \in cartItemIds.ids /\ i.userId = userId}
      productIds == ProductIdsOf(cartItems)
      c == cart \ cartItems
      sc == Pull(shopping_cart, userId, productIds)
  IN
  IF cartItemIds.length = 0 THEN Reply(400, "in_progress")
  ELSE IF \E id \in cartItemIds.ids : ~IsValidItemId(id) THEN Reply(400, "in_progress")
  ELSE IF cartItemIds.length > MAX_BATCH THEN Reply(400, "in_progress")
  ELSE IF fault = "read" THEN CatchBlock("in_progress", "read", 500, cart, shopping_cart)
  ELSE IF cartItems = {} THEN Reply(404, "aborted")
  ELSE IF fault = "save" THEN CatchBlock("in_progress", "save", 500, cart, shopping_cart)
  ELSE IF fault = "mirror" THEN CatchBlock("in_progress", "mirror", 500, c, shopping_cart)
  ELSE Committed(200, c, sc)

(***************************************************************************)
(* saveForLater, moveToCart: no session, no transaction; each write is     *)
(* visible as soon as it is made.                                          *)
(***************************************************************************)
\* return res.status(code).json(...) after the writes that made c
Plain(code, at, c) ==
  [code |-> code, envelope |-> TRUE, txn |-> "none", thrown |-> at,
   cart |-> c, sc |-> shopping_cart]

saveForLater(userId, id, fault) ==
  LET found == FindOwned(cart, id, userId) IN
  IF ~IsValidItemId(id) THEN Plain(400, "none", cart)
  ELSE IF fault = "read" THEN Plain(500, "read", cart)
  ELSE IF found = {} THEN Plain(404, "none", cart)
  ELSE
    LET cartItem == CHOOSE i \in found : TRUE
        c == SaveItem(cart, [cartItem EXCEPT !.status = "saved_for_later"])
    IN
    IF cartItem.status = "saved_for_later" THEN Plain(400, "none", cart)
    ELSE IF fault = "save" THEN Plain(500, "save", cart)
    ELSE IF fault = "populate" THEN Plain(500, "populate", c)
    ELSE Plain(200, "none", c)

\* a plausible slip: the price stamped at the add is kept
Activate_KeepPrice(cartItem, product) == [cartItem EXCEPT !.status = "active"]

\* cartItem.status = 'active'; cartItem.priceAtAdd = cartItem.productId.price
Activate(cartItem, product) ==
  [cartItem EXCEPT !.status = "active", !.priceAtAdd = product.price]

moveToCart(userId, id, fault) ==
  LET found == FindOwned(cart, id, userId) IN
  IF ~IsValidItemId(id) THEN Plain(400, "none", cart)
  ELSE IF fault = "read" THEN Plain(500, "read", cart)
  ELSE IF found = {} THEN Plain(404, "none", cart)
  ELSE
    LET cartItem == CHOOSE i \in found : TRUE IN
    IF cartItem.status = "active" THEN Plain(400, "none", cart)
    ELSE IF ~ProductExists(cartItem.productId) THEN Plain(404, "none", cart)
    ELSE
      LET product == products[cartItem.productId]
          c == SaveItem(cart, Activate(cartItem, product))
      IN
      IF product.countInStock = 0 THEN Plain(400, "none", cart)
      ELSE IF cartItem.quantity > product.countInStock THEN Plain(400, "none", cart)
      ELSE IF fault = "save" THEN Plain(500, "save", cart)
      ELSE IF fault = "populate" THEN Plain(500, "populate", c)
      ELSE Plain(200, "none", c)

(***************************************************************************)
(* The wishlist (src/controllers/mylist.controller.js): no transaction;    *)
(* an outcome holds the status code and the collection after the handler.  *)
(***************************************************************************)
\* productSchema.brand: default ''
NoBrand == ""

\* a product without images
NoImage == ""

\* a snapshot number that may be null
Value(n) == [null |-> FALSE, v |-> n]
NullValue == [null |-> TRUE, v |-> 0]

\* n || null
OrNull(n) == IF n # 0 THEN Value(n) ELSE NullValue

\* stored !== n, for a stored number that may be null
StrictlyDiffers(stored, n) == stored.null \/ stored.v # n

\* myListSchema.brand, productImage: required (a required String does not
\* accept '')
FailsValidation(product) == product.brand = NoBrand \/ product.image = NoImage

\* the document addToMyList creates from the product
Snapshot(id, userId, productId, product) ==
  [id |-> id, userId |-> userId, productId |-> productId,
   productTitle |-> product.name, productImage |-> product.image,
   rating |-> product.rating, price |-> product.price,
   oldPrice |-> OrNull(product.oldPrice), brand |-> product.brand,
   discount |-> product.discount]

WishReply(code, at, l) ==
  [code |-> code, thrown |-> at, list |-> l,
   results |-> [success |-> 0, failed |-> 0, updated |-> {}, errors |-> {}]]

\* MyListModel.findOne({ userId, productId })
FindInMyList(l, userId, productId) ==
  {w \in l : w.userId = userId /\ w.productId = productId}

\* a plausible slip: the collection has no unique index
ViolatesMyListIndex_None(l, item) == FALSE

\* the unique index { userId: 1, productId: 1 } of the wishlist
ViolatesMyListIndex(l, item) ==
  \E w \in l : w.userId = item.userId /\ w.productId = item.productId /\ w.id # item.id

\* MyListModel.create({...}) with the product's data as the snapshot, then
\* populate; a ValidationError is answered 400, error.code === 11000 409
CreateMyListItem(userId, productId, product, fault) ==
  LET myListItem == Snapshot(NewId(mylist), userId, productId, product) IN
  IF FailsValidation(product) THEN WishReply(400, "validation", mylist)
  ELSE IF fault = "save" THEN WishReply(500, "save", mylist)
  ELSE IF ViolatesMyListIndex(mylist, myListItem)
       THEN WishReply(409, "duplicate_key", mylist)
  ELSE IF fault = "populate" THEN WishReply(500, "populate", mylist \cup {myListItem})
  ELSE WishReply(201, "none", mylist \cup {myListItem})

addToMyList(userId, productId, fault) ==
  IF productId = NoProductId THEN WishReply(400, "none", mylist)
  ELSE IF ~IsValidProductId(productId) THEN WishReply(400, "none", mylist)
  ELSE IF fault = "read" THEN WishReply(500, "read", mylist)
  ELSE IF ~ProductExists(productId) THEN WishReply(404, "none", mylist)
  ELSE IF FindInMyList(mylist, userId, productId) # {} THEN WishReply(409, "none", mylist)
  ELSE CreateMyListItem(userId, productId, products[productId], fault)

\* a plausible slip: the user is left out of the filter
DeleteFilter_AnyUser(l, userId, productId) == {w \in l : w.productId = productId}

\* MyListModel.findOneAndDelete({ userId, productId })
DeleteFilter(l, userId, productId) == FindInMyList(l, userId, productId)

removeFromMyList(userId, productId, fault) ==
  LET deletedItem == DeleteFilter(mylist, userId, productId) IN
  IF ~IsValidProductId(productId) THEN WishReply(400, "none", mylist)
  ELSE IF fault = "read" THEN WishReply(500, "read", mylist)
  ELSE IF deletedItem = {} THEN WishReply(404, "none", mylist)
  ELSE WishReply(200, "none", mylist \ deletedItem)

\* MyListModel.deleteMany({ userId })
clearWishlist(userId, fault) ==
  IF fault = "save" THEN WishReply(500, "save", mylist)
  ELSE WishReply(200, "none", {w \in mylist : w.userId # userId})

\* product.images?.[0]?.url || item.productImage
ProductImageUrl(item, product) ==
  IF product.image # NoImage THEN product.image ELSE item.productImage

\* hasChanges: a strict comparison of each synced field with the product
HasChanges(item, product) ==
  \/ item.productTitle # product.name
  \/ item.price # product.price
  \/ StrictlyDiffers(item.oldPrice, product.oldPrice)
  \/ item.discount # product.discount
  \/ item.rating # product.rating
  \/ item.productImage # ProductImageUrl(item, product)

\* a plausible slip: the brand snapshot is refreshed as well
Refresh_WithBrand(item, product) ==
  [item EXCEPT !.productTitle = product.name,
               !.productImage = ProductImageUrl(item, product),
               !.price = product.price,
               !.oldPrice = OrNull(product.oldPrice),
               !.discount = product.discount,
               !.rating = product.rating,
               !.brand = product.brand]

\* the assignments made when hasChanges
Refresh(item, product) ==
  [item EXCEPT !.productTitle = product.name,
               !.productImage = ProductImageUrl(item, product),
               !.price = product.price,
               !.oldPrice = OrNull(product.oldPrice),
               !.discount = product.discount,
               !.rating = product.rating]

\* a plausible slip: an item whose product is gone is removed
ProductNotFound_Remove(item) ==
  [stored |-> {}, outcome |-> "failed", updated |-> FALSE]

\* if (!product) { results.failed++; results.errors.push(...); continue; }
ProductNotFound(item) ==
  [stored |-> {item}, outcome |-> "failed", updated |-> FALSE]

\* one turn of the loop of syncWishlistProducts: what is stored for the item
\* afterwards, how it is counted, and whether it is listed in 'updated'
SyncItem(item, fault) ==
  IF ~ProductExists(item.productId) THEN ProductNotFound(item)
  ELSE
    LET product == products[item.productId] IN
    IF ~HasChanges(item, product)
    THEN [stored |-> {item}, outcome |-> "success", updated |-> FALSE]
    ELSE IF fault = "save"
    THEN [stored |-> {item}, outcome |-> "failed", updated |-> FALSE]
    ELSE [stored |-> {Refresh(item, product)}, outcome |-> "success", updated |-> TRUE]

NoResults == [success |-> 0, failed |-> 0, updated |-> {}, errors |-> {}]

\* for each wishlist item of the user a turn of the loop; a failure on an item
\* is counted, not raised
syncWishlistProducts(userId, fault) ==
  LET wishlistItems == {w \in mylist : w.userId = userId}
      results ==
        [success |-> Cardinality({w \in wishlistItems : SyncItem(w, fault).outcome = "success"}),
         failed |-> Cardinality({w \in wishlistItems : SyncItem(w, fault).outcome = "failed"}),
         updated |-> {w.productId : w \in {x \in wishlistItems : SyncItem(x, fault).updated}},
         errors |-> {w.productId :
                       w \in {x \in wishlistItems : SyncItem(x, fault).outcome = "failed"}}]
      l == (mylist \ wishlistItems)
             \cup UNION {SyncItem(w, fault).stored : w \in wishlistItems}
      saveFailed == \E w \in wishlistItems :
                      /\ ProductExists(w.productId)
                      /\ HasChanges(w, products[w.productId])
  IN
  IF fault = "read" THEN [WishReply(500, "read", mylist) EXCEPT !.results = NoResults]
  ELSE [WishReply(200, IF fault = "save" /\ saveFailed THEN "save" ELSE "none", l)
          EXCEPT !.results = results]

\* a plausible slip: the saving is taken whatever the two prices are
Saving_Unconditional(item) ==
  IF item.oldPrice.null THEN 0 - item.price ELSE item.oldPrice.v - item.price

\* $cond: [{ $and: [{ $ne: ['$oldPrice', null] }, { $gt: ['$oldPrice', '$price'] }] },
\*         { $subtract: ['$oldPrice', '$price'] }, 0]
Saving(item) ==
  IF ~item.oldPrice.null /\ item.oldPrice.v > item.price
  THEN item.oldPrice.v - item.price ELSE 0

NoStats == [totalItems |-> 0, totalValue |-> 0, totalSavings |-> 0, itemsOnSale |-> 0]

\* MyListModel.aggregate([{ $match: { userId } }, { $group: ... }]); no group
\* for an empty wishlist, answered with the zero aggregates
getWishlistStats(userId, fault) ==
  LET matched == {w \in mylist : w.userId = userId}
      stats == [totalItems |-> Sum([w \in matched |-> 1]),
                totalValue |-> Sum([w \in matched |-> w.price]),
                totalSavings |-> Sum([w \in matched |-> Saving(w)]),
                itemsOnSale |-> Sum([w \in matched |-> IF w.discount > 0 THEN 1 ELSE 0])]
  IN
  IF fault = "read" THEN [code |-> 500, thrown |-> "read", stats |-> NoStats]
  ELSE [code |-> 200, thrown |-> "none",
        stats |-> IF matched = {} THEN NoStats ELSE stats]

(***************************************************************************)
(* The product listing (src/helpers/product.helper.js).  A query parameter *)
(* is absent, the empty string, a string that is not a number, or a string *)
(* that is one; a parsed number is kept in halves, as the quantities are.  *)
(***************************************************************************)
Empty == [kind |-> "empty", x2 |-> 0]

\* a value is truthy as a string: it is there and is not ''
IsSet(raw) == raw.kind \notin {"missing", "empty"}

\* parseInt: the integer part, toward zero
ParseInt(raw) ==
  IF raw.kind # "number" THEN NaN
  ELSE IF raw.x2 >= 0 THEN Num(raw.x2 \div 2) ELSE Num(-((-raw.x2) \div 2))

\* parseFloat
ParseFloat(raw) == IF raw.kind = "number" THEN [nan |-> FALSE, x2 |-> raw.x2] ELSE NaN

\* null: 0 in a comparison, falsy
Null == [nan |-> FALSE, x2 |-> 0, null |-> TRUE]

Max(a, b) == IF a >= b THEN a ELSE b
Min(a, b) == IF a <= b THEN a ELSE b

DEFAULT_PAGE == 1
DEFAULT_LIMIT == 10
MAX_LIMIT == 100

\* isNaN(pageNum) || pageNum < 1;  isNaN(limitNum) || limitNum < 1 || limitNum > 100
PaginationErrors(pageNum, limitNum) ==
  (IF pageNum.nan \/ Lt(pageNum, 1) THEN {"Page must be a positive integer"} ELSE {})
    \cup (IF limitNum.nan \/ Lt(limitNum, 1) \/ Gt(limitNum, MAX_LIMIT)
          THEN {"Limit must be between 1 and 100"} ELSE {})

validatePaginationParams(page, limit) ==
  LET pageNum == IF Truthy(ParseInt(page)) THEN ParseInt(page) ELSE Num(DEFAULT_PAGE)
      limitNum == IF Truthy(ParseInt(limit)) THEN ParseInt(limit) ELSE Num(DEFAULT_LIMIT)
  IN
  [pageNum |-> Max(1, ToInt(pageNum)),
   limitNum |-> Max(1, Min(MAX_LIMIT, ToInt(limitNum))),
   errors |-> PaginationErrors(pageNum, limitNum)]

\* a bound of filter.price that was not set
Unset == [unset |-> TRUE]
NoPriceFilter == [set |-> FALSE, gte |-> Unset, lte |-> Unset]

\* minPriceNum && maxPriceNum && minPriceNum > maxPriceNum
ShouldSwap(minPriceNum, maxPriceNum) ==
  Truthy(minPriceNum) /\ Truthy(maxPriceNum) /\ minPriceNum.x2 > maxPriceNum.x2

\* n >= 0 (false for NaN, true for null)
AtLeastZero(n) == ~n.nan /\ n.x2 >= 0

\* the price part of buildProductFilter
buildProductFilter(minPrice, maxPrice) ==
  LET minPriceNum == IF IsSet(minPrice) THEN ParseFloat(minPrice) ELSE Null
      maxPriceNum == IF IsSet(maxPrice) THEN ParseFloat(maxPrice) ELSE Null
  IN
  IF ~(IsSet(minPrice) \/ IsSet(maxPrice)) THEN NoPriceFilter
  ELSE IF ShouldSwap(minPriceNum, maxPriceNum)
       THEN [set |-> TRUE, gte |-> maxPriceNum, lte |-> minPriceNum]
  ELSE [set |-> TRUE,
        gte |-> IF AtLeastZero(minPriceNum) THEN minPriceNum ELSE Unset,
        lte |-> IF AtLeastZero(maxPriceNum) THEN maxPriceNum ELSE Unset]

\* ProductModel.countDocuments(filter): a comparison with null matches no number
MatchesPrice(price, filter) ==
  /\ filter.gte # Unset => (filter.gte # Null /\ 2 * price >= filter.gte.x2)
  /\ filter.lte # Unset => (filter.lte # Null /\ 2 * price <= filter.lte.x2)

\* filter.brand = { $regex: brand.trim(), $options: 'i' } if brand is given
MatchesBrand(productBrand, brand) == brand # NoBrand => productBrand = brand

\* the filter a listing is made with: the base filter { catId: fieldValue } and
\* the narrowing of the query parameters
ListingFilter(fieldValue, price, brand) ==
  [catId |-> fieldValue, price |-> price, brand |-> brand]

\* baseFilter = { [fieldName]: fieldValue }: no narrowing
BaseFilter(fieldValue) == ListingFilter(fieldValue, NoPriceFilter, NoBrand)

\* ProductModel.find(filter)
Matching(filter) ==
  {p \in Products : /\ ProductExists(p)
                    /\ products[p].catId = filter.catId
                    /\ MatchesPrice(products[p].price, filter.price)
                    /\ MatchesBrand(products[p].brand, filter.brand)}

\* the facets returned when the facet queries fail, and for no product
EmptyFacets == [brands |-> {}, priceRange |-> [minPrice |-> 0, maxPrice |-> 0]]

\* getAvailableFilters(matchFilter): the distinct non-empty brands and the
\* price range of the products that match; its own catch answers the empty facets
getAvailableFilters(matchFilter, fault) ==
  LET matched == Matching(matchFilter)
      prices == {products[p].price : p \in matched}
  IN
  IF fault = "facets" THEN EmptyFacets
  ELSE [brands |-> {products[p].brand : p \in matched} \ {NoBrand},
        priceRange |->
          IF matched = {} THEN [minPrice |-> 0, maxPrice |-> 0]
          ELSE [minPrice |-> CHOOSE x \in prices : \A y \in prices : x <= y,
                maxPrice |-> CHOOSE x \in prices : \A y \in prices : x >= y]]

\* a plausible slip: the facets are computed under the narrowed filter
FacetScope_Narrowed(baseFilter, filter) == filter

\* getAvailableFilters(baseFilter)
FacetScope(baseFilter, filter) == baseFilter

NoQuery ==
  [page |-> Missing, limit |-> Missing, minPrice |-> Missing, maxPrice |-> Missing,
   brand |-> NoBrand]
NoListing ==
  [statusCode |-> 0, pageNum |-> 0, limitNum |-> 0, errors |-> {}, filter |-> NoPriceFilter,
   totalProducts |-> 0, availableFilters |-> EmptyFacets]

getProductsByField(fieldValue, query, fault) ==
  LET v == validatePaginationParams(query.page, query.limit)
      baseFilter == BaseFilter(fieldValue)
      price == buildProductFilter(query.minPrice, query.maxPrice)
      filter == ListingFilter(fieldValue, price, query.brand)
      totalProducts == Cardinality(Matching(filter))
      checked == [NoListing EXCEPT !.pageNum = v.pageNum, !.limitNum = v.limitNum,
                                   !.errors = v.errors]
  IN
  IF v.errors # {} THEN [checked EXCEPT !.statusCode = 400]
  ELSE IF fault = "read" THEN [checked EXCEPT !.statusCode = 500, !.filter = price]
  ELSE IF totalProducts = 0 /\ v.pageNum = 1
       THEN [checked EXCEPT !.statusCode = 404, !.filter = price]
  ELSE [checked EXCEPT !.statusCode = 200, !.filter = price,
                       !.totalProducts = totalProducts,
                       !.availableFilters =
                          getAvailableFilters(FacetScope(baseFilter, filter), fault)]

(***************************************************************************)
(* The record of the last request: its inputs, its response and the        *)
(* collections as they were before it.                                     *)
(***************************************************************************)
NoRequest ==
  [op |-> "none", userId |-> "", productId |-> "", id |-> 0,
   cartItemIds |-> [ids |-> {}, length |-> 0],
   quantity |-> Missing, scope |-> "", thrown |-> "none", code |-> 0,
   envelope |-> TRUE, txn |-> "none", pre_cart |-> {}, pre_sc |-> [u \in Users |-> {}],
   pre_mylist |-> {}, report |-> NoReport, query |-> NoQuery, listing |-> NoListing,
   session |-> NoSession, fieldValue |-> "", results |-> NoResults, stats |-> NoStats]

Request(op, userId) ==
  [NoRequest EXCEPT !.op = op, !.userId = userId, !.pre_cart = cart,
                    !.pre_sc = shopping_cart, !.pre_mylist = mylist]

\* the request is the plain one among those with its effect: no database call
\* failed, the quantity sent is an integer in [1, 100] and the array of a batch
\* names each id once
IsPlain(req, out) ==
  /\ out.thrown = "none"
  /\ req.op \in {"createCartItem", "updateCartItemQuantity"} =>
       /\ req.quantity.kind = "number"
       /\ req.quantity.x2 % 2 = 0
       /\ req.quantity.x2 >= 2 * MIN_QUANTITY
       /\ req.quantity.x2 <= 2 * MAX_QUANTITY
  /\ req.cartItemIds.length = Cardinality(req.cartItemIds.ids)

\* A request that changes nothing leaves the collections where the run without
\* it has them: the run is not continued past it.  Nor is it continued past a
\* request that is not plain: the collections after it are those after the
\* plain request with the same effect (a failed read after the commit leaves
\* what the commit wrote; a quantity that is not sent or not a number is 1).
Respond(req, out) ==
  /\ cart' = out.cart
  /\ shopping_cart' = out.sc
  /\ last' = [req EXCEPT !.thrown = out.thrown, !.code = out.code,
                         !.envelope = out.envelope, !.txn = out.txn,
                         !.session = IF out.txn = "none" THEN NoSession
                                     ELSE EndSession(out.txn)]
  /\ nOps' = IF (out.cart = cart /\ out.sc = shopping_cart) \/ ~IsPlain(req, out)
             THEN MaxOps ELSE nOps + 1
  /\ UNCHANGED <<products, mylist, reqs>>

\* the same for a wishlist request
WishRespond(req, out) ==
  /\ mylist' = out.list
  /\ last' = [req EXCEPT !.thrown = out.thrown, !.code = out.code,
                         !.results = out.results]
  /\ nOps' = IF out.list = mylist \/ out.thrown # "none" THEN MaxOps ELSE nOps + 1
  /\ UNCHANGED <<products, cart, shopping_cart, reqs>>

CreateCartItem ==
  /\ nOps < MaxOps
  /\ \E userId \in Users, productId \in ProductIdInputs,
        rawQuantity \in QuantityInputs, fault \in Faults :
       LET out == createCartItem(userId, productId, rawQuantity, fault) IN
         /\ fault \in {"none", out.thrown}
         /\ Respond([Request("createCartItem", userId) EXCEPT
                  !.productId = productId, !.quantity = rawQuantity], out)

UpdateCartItemQuantity ==
  /\ nOps < MaxOps
  /\ \E userId \in Users, id \in ItemIdInputs,
        rawQuantity \in QuantityInputs, fault \in Faults :
       LET out == updateCartItemQuantity(userId, id, rawQuantity, fault) IN
         /\ fault \in {"none", out.thrown}
         /\ Respond([Request("updateCartItemQuantity", userId) EXCEPT
                  !.id = id, !.quantity = rawQuantity], out)

IncrementCartQuantity ==
  /\ nOps < MaxOps
  /\ \E userId \in Users, id \in ItemIdInputs, fault \in Faults :
       LET out == incrementCartQuantity(userId, id, fault) IN
         /\ fault \in {"none", out.thrown}
         /\ Respond([Request("incrementCartQuantity", userId) EXCEPT !.id = id], out)

DecrementCartQuantity ==
  /\ nOps < MaxOps
  /\ \E userId \in Users, id \in ItemIdInputs, fault \in Faults :
       LET out == decrementCartQuantity(userId, id, fault) IN
         /\ fault \in {"none", out.thrown}
         /\ Respond([Request("decrementCartQuantity", userId) EXCEPT !.id = id], out)

DeleteCartItem ==
  /\ nOps < MaxOps
  /\ \E userId \in Users, id \in ItemIdInputs, fault \in Faults :
       LET out == deleteCartItem(userId, id, fault) IN
         /\ fault \in {"none", out.thrown}
         /\ Respond([Request("deleteCartItem", userId) EXCEPT !.id = id], out)

ClearCart ==
  /\ nOps < MaxOps
  /\ \E userId \in Users, status \in ScopeInputs, fault \in Faults :
       LET out == clearCart(userId, status, fault) IN
         /\ fault \in {"none", out.thrown}
         /\ Respond([Request("clearCart", userId) EXCEPT !.scope = status], out)

DeleteCartItemsBatch ==
  /\ nOps < MaxOps
  /\ \E userId \in Users, cartItemIds \in BatchInputs, fault \in Faults :
       /\ cartItemIds.length >= Cardinality(cartItemIds.ids)
       /\ cartItemIds.length = 0 <=> cartItemIds.ids = {}
       /\ LET out == deleteCartItemsBatch(userId, cartItemIds, fault) IN
            /\ fault \in {"none", out.thrown}
            /\ Respond([Request("deleteCartItemsBatch", userId) EXCEPT !.cartItemIds = cartItemIds], out)

SaveForLater ==
  /\ nOps < MaxOps
  /\ \E userId \in Users, id \in ItemIdInputs, fault \in Faults :
       LET out == saveForLater(userId, id, fault) IN
         /\ fault \in {"none", out.thrown}
         /\ Respond([Request("saveForLater", userId) EXCEPT !.id = id], out)

MoveToCart ==
  /\ nOps < MaxOps
  /\ \E userId \in Users, id \in ItemIdInputs, fault \in Faults :
       LET out == moveToCart(userId, id, fault) IN
         /\ fault \in {"none", out.thrown}
         /\ Respond([Request("moveToCart", userId) EXCEPT !.id = id], out)

GetCartItems ==
  /\ nOps < MaxOps
  /\ \E userId \in Users, status \in StatusQueryInputs, fault \in {"none", "read"} :
       LET out == getCartItems(userId, status, fault) IN
         /\ fault \in {"none", out.thrown}
         /\ last' = [Request("getCartItems", userId) EXCEPT
                       !.scope = status, !.code = out.code, !.thrown = out.thrown,
                       !.report = out.report]
  /\ nOps' = MaxOps
  /\ UNCHANGED <<products, cart, shopping_cart, mylist, reqs>>

AddToMyList ==
  /\ nOps < MaxOps
  /\ \E userId \in Users, productId \in ProductIdInputs, fault \in Faults :
       LET out == addToMyList(userId, productId, fault) IN
         /\ fault \in {"none", out.thrown}
         /\ WishRespond([Request("addToMyList", userId) EXCEPT !.productId = productId], out)

RemoveFromMyList ==
  /\ nOps < MaxOps
  /\ \E userId \in Users, productId \in ProductIdInputs \ {NoProductId},
        fault \in Faults :
       LET out == removeFromMyList(userId, productId, fault) IN
         /\ fault \in {"none", out.thrown}
         /\ WishRespond([Request("removeFromMyList", userId) EXCEPT !.productId = productId], out)

ClearWishlist ==
  /\ nOps < MaxOps
  /\ \E userId \in Users, fault \in Faults :
       LET out == clearWishlist(userId, fault) IN
         /\ fault \in {"none", out.thrown}
         /\ WishRespond(Request("clearWishlist", userId), out)

SyncWishlistProducts ==
  /\ nOps < MaxOps
  /\ \E userId \in Users, fault \in Faults :
       LET out == syncWishlistProducts(userId, fault) IN
         /\ fault \in {"none", out.thrown}
         /\ WishRespond(Request("syncWishlistProducts", userId), out)

GetWishlistStats ==
  /\ nOps < MaxOps
  /\ \E userId \in Users, fault \in {"none", "read"} :
       LET out == getWishlistStats(userId, fault) IN
         last' = [Request("getWishlistStats", userId) EXCEPT
                    !.thrown = out.thrown, !.code = out.code, !.stats = out.stats]
  /\ nOps' = MaxOps
  /\ UNCHANGED <<products, cart, shopping_cart, mylist, reqs>>

(***************************************************************************)
(* Product administration (PUT /api/product/:id, DELETE /api/product/:id). *)
(***************************************************************************)
UpdateProduct ==
  /\ nOps < MaxOps
  /\ \E productId \in Products, countInStock \in StockVals, price \in PriceVals :
       /\ products[productId].exists
       /\ products' = [products EXCEPT ![productId].countInStock = countInStock,
                                       ![productId].price = price]
       /\ products' # products
       /\ last' = [Request("updateProduct", "") EXCEPT !.productId = productId, !.code = 200]
  /\ nOps' = nOps + 1
  /\ UNCHANGED <<cart, shopping_cart, mylist, reqs>>

DeleteProduct ==
  /\ nOps < MaxOps
  /\ \E productId \in Products :
       /\ products[productId].exists
       /\ products' = [products EXCEPT ![productId].exists = FALSE]
       /\ last' = [Request("deleteProduct", "") EXCEPT !.productId = productId, !.code = 200]
  /\ nOps' = nOps + 1
  /\ UNCHANGED <<cart, shopping_cart, mylist, reqs>>

(***************************************************************************)
(* Initial states: the empty store, and stores that earlier requests have  *)
(* left behind (each is named with the requests that produce it).          *)
(***************************************************************************)
Item(id, userId, productId, quantity, priceAtAdd, status) ==
  [id |-> id, userId |-> userId, productId |-> productId, quantity |-> quantity,
   priceAtAdd |-> priceAtAdd, status |-> status]

Mirror(c) == [u \in Users |-> {i.productId : i \in {j \in c : j.userId = u}}]

InitialProducts ==
  [p \in Products |->
     [exists |-> TRUE, countInStock |-> IF p = "p1" THEN 2 ELSE 150, price |-> 10,
      brand |-> IF p = "p1" THEN "acme" ELSE NoBrand, catId |-> "c1",
      name |-> "n1", image |-> "i1", oldPrice |-> 0, discount |-> 0, rating |-> 0]]

InitialCarts ==
  { {},
    \* u1 adds 1 of p1
    {Item(1, "u1", "p1", 1, 10, "active")},
    \* u1 adds 99 of p2, u2 adds 2 of p1 and saves it for later
    {Item(1, "u1", "p2", 99, 10, "active"), Item(2, "u2", "p1", 2, 10, "saved_for_later")},
    \* u1 adds 2 of p1 and 1 of p2 and saves p2; u2 adds 1 of p2
    {Item(1, "u1", "p1", 2, 10, "active"), Item(2, "u1", "p2", 1, 10, "saved_for_later"),
     Item(3, "u2", "p2", 1, 10, "active")},
    \* p1 had stock 150 and price 0 when u1 added 100 of it and saved it
    {Item(1, "u1", "p1", 100, 0, "saved_for_later")} }

WishItem(id, userId, productId, price) ==
  Snapshot(id, userId, productId, [InitialProducts[productId] EXCEPT !.price = price])

InitialLists ==
  { \* u1 and u2 each add p1
    {WishItem(1, "u1", "p1", 10), WishItem(2, "u2", "p1", 10)},
    \* u1 adds p1 when its price was 0
    {WishItem(1, "u1", "p1", 0)} }

InitialStores ==
  {[cart |-> c, mylist |-> {}] : c \in InitialCarts}
    \cup {[cart |-> {}, mylist |-> l] : l \in InitialLists}

Init ==
  /\ products = InitialProducts
  /\ \E s \in InitialStores : cart = s.cart /\ mylist = s.mylist
  /\ shopping_cart = Mirror(cart)
  /\ last = NoRequest
  /\ nOps = 0
  /\ reqs = {}

Next ==
  \/ CreateCartItem
  \/ UpdateCartItemQuantity
  \/ IncrementCartQuantity
  \/ DecrementCartQuantity
  \/ DeleteCartItem
  \/ ClearCart
  \/ DeleteCartItemsBatch
  \/ SaveForLater
  \/ MoveToCart
  \/ GetCartItems
  \/ AddToMyList
  \/ RemoveFromMyList
  \/ ClearWishlist
  \/ SyncWishlistProducts
  \/ UpdateProduct
  \/ DeleteProduct

Spec == Init /\ [][Next]_vars

(***************************************************************************)
(* Concurrent adds.  createCartItem awaits between its reads (lines 47,    *)
(* 80) and its writes (lines 115, 137): another request can commit in      *)
(* between.  RaceRead is the handler up to its reads, for a request that   *)
(* passes the checks made on them; RaceWrite is the rest, run against the  *)
(* collection as it is by then.                                            *)
(***************************************************************************)
RaceQuantities == {1, 2}

RaceRead ==
  /\ nOps < MaxRace
  /\ \E userId \in Users, productId \in Products, q \in RaceQuantities :
       /\ ProductExists(productId)
       /\ ~InsufficientStock(products[productId].countInStock, q)
       /\ reqs' = reqs \cup
            {[rid |-> nOps + 1, userId |-> userId, productId |-> productId, q |-> q,
              product |-> products[productId],
              existing |-> FindByUserProduct(cart, userId, productId)]}
  /\ nOps' = nOps + 1
  /\ UNCHANGED <<products, cart, shopping_cart, mylist, last>>

\* the handler from line 85 on, with what it read before
createCartItemWrite(r) ==
  IF r.existing = {} THEN CreateNew(r.userId, r.productId, r.product, r.q, "none")
  ELSE IF ~(r.existing \subseteq cart)
       THEN CatchBlock("in_progress", "write_conflict", 500, cart, shopping_cart)
  ELSE MergeIntoExisting(CHOOSE i \in r.existing : TRUE, r.product, r.q, "none")

RaceWrite ==
  \E r \in reqs :
    LET out == createCartItemWrite(r) IN
      /\ cart' = out.cart
      /\ shopping_cart' = out.sc
      /\ last' = [Request("createCartItem", r.userId) EXCEPT
                    !.productId = r.productId, !.quantity = Numeric(2 * r.q),
                    !.thrown = out.thrown, !.code = out.code,
                    !.envelope = out.envelope, !.txn = out.txn,
                    !.session = EndSession(out.txn)]
      /\ reqs' = reqs \ {r}
      /\ UNCHANGED <<products, mylist, nOps>>

RaceNext ==
  \/ RaceRead
  \/ RaceWrite

SpecRace == Init /\ [][RaceNext]_vars

(***************************************************************************)
(* Concurrent wishlist adds.  addToMyList awaits between its reads (lines  *)
(* 39, 49) and MyListModel.create (line 65).  WishRead is the handler up   *)
(* to its reads: a request that finds the item is answered 409 there, one  *)
(* that does not stays pending (code 0) until WishWrite runs the rest.     *)
(***************************************************************************)
MaxWishRace == 3

WishRead ==
  /\ nOps < MaxWishRace
  /\ \E userId \in Users, productId \in Products :
       LET existingItem == FindInMyList(mylist, userId, productId) IN
       /\ ProductExists(productId)
       /\ reqs' = reqs \cup
            {[rid |-> nOps + 1, userId |-> userId, productId |-> productId,
              product |-> products[productId], existing |-> existingItem,
              code |-> IF existingItem # {} THEN 409 ELSE 0]}
  /\ nOps' = nOps + 1
  /\ UNCHANGED <<products, cart, shopping_cart, mylist, last>>

WishWrite ==
  \E r \in reqs :
    /\ r.code = 0
    /\ LET out == CreateMyListItem(r.userId, r.productId, r.product, "none") IN
         /\ mylist' = out.list
         /\ reqs' = (reqs \ {r}) \cup {[r EXCEPT !.code = out.code]}
         /\ last' = [Request("addToMyList", r.userId) EXCEPT
                       !.productId = r.productId, !.thrown = out.thrown,
                       !.code = out.code]
    /\ UNCHANGED <<products, cart, shopping_cart, nOps>>

WishRaceNext ==
  \/ WishRead
  \/ WishWrite

SpecWishRace == Init /\ [][WishRaceNext]_vars

(***************************************************************************)
(* The wishlist on its own: the products have been edited since the items  *)
(* were added, so a snapshot is that of an earlier version of its product. *)
(***************************************************************************)
Version(name, brand, image, price, oldPrice, discount, rating) ==
  [exists |-> TRUE, countInStock |-> 2, price |-> price, brand |-> brand,
   catId |-> "c1", name |-> name, image |-> image, oldPrice |-> oldPrice,
   discount |-> discount, rating |-> rating]

ProductVersions ==
  { \* as created with the defaults: no old price, no discount, no rating
    Version("n1", "acme", "i1", 10, 0, 0, 0),
    \* on sale
    Version("n1", "acme", "i1", 10, 15, 20, 4),
    \* renamed and rebranded, with a new image and an old price below the price
    Version("n2", "zeta", "i2", 10, 5, 0, 4),
    \* free, and its images removed
    Version("n1", "acme", NoImage, 0, 15, 20, 0) }

\* the versions addToMyList accepts
AddedVersions == {v \in ProductVersions : ~FailsValidation(v)}

WishlistsOf(a, b) ==
  { {},
    \* u1 adds p1
    {Snapshot(1, "u1", "p1", a)},
    \* u1 adds p1 and p2
    {Snapshot(1, "u1", "p1", a), Snapshot(2, "u1", "p2", b)},
    \* u1 and u2 each add p1
    {Snapshot(1, "u1", "p1", a), Snapshot(2, "u2", "p1", a)} }

InitWishlist ==
  /\ \E v \in ProductVersions :
       products = [p \in Products |->
                     IF p = "p1" THEN v ELSE Version("n2", "zeta", "i2", 10, 15, 20, 4)]
  /\ \E a \in AddedVersions, b \in AddedVersions : mylist \in WishlistsOf(a, b)
  /\ cart = {}
  /\ shopping_cart = Mirror(cart)
  /\ last = NoRequest
  /\ nOps = 0
  /\ reqs = {}

WishlistNext ==
  \/ AddToMyList
  \/ RemoveFromMyList
  \/ SyncWishlistProducts
  \/ GetWishlistStats
  \/ DeleteProduct

SpecWishlist == InitWishlist /\ [][WishlistNext]_vars

(***************************************************************************)
(* The product listing on its own: one request, over every query.          *)
(***************************************************************************)
PageInputs == {Missing, Text} \cup {Numeric(x2) : x2 \in {-6, 0, 2, 5}}
LimitInputs == {Missing, Text} \cup {Numeric(x2) : x2 \in {-2, 0, 2, 41, 200, 202, 1000}}
PriceInputs == {Missing, Empty, Text} \cup {Numeric(x2) : x2 \in {-10, -2, 0, 1, 20}}

CatIdInputs == {"c1", "c2"}
BrandInputs == {NoBrand, "acme"}

GetProductsByField ==
  /\ nOps < MaxOps
  /\ \E catId \in CatIdInputs, page \in PageInputs, limit \in LimitInputs,
        minPrice \in PriceInputs, maxPrice \in PriceInputs, brand \in BrandInputs,
        fault \in {"none", "read", "facets"} :
       LET query == [page |-> page, limit |-> limit, minPrice |-> minPrice,
                     maxPrice |-> maxPrice, brand |-> brand]
           out == getProductsByField(catId, query, fault)
       IN
       /\ fault = "read" => out.statusCode = 500
       /\ fault = "facets" => out.statusCode = 200
       /\ last' = [Request("getProductsByField", "") EXCEPT
                     !.fieldValue = catId,
                     !.query = query, !.listing = out, !.code = out.statusCode,
                     !.thrown = fault]
  /\ nOps' = MaxOps
  /\ UNCHANGED <<products, cart, shopping_cart, mylist, reqs>>

SpecListing == Init /\ [][GetProductsByField]_vars

(***************************************************************************)
(* Properties.                                                             *)
(***************************************************************************)
TransactionalOps ==
  {"createCartItem", "updateCartItemQuantity", "incrementCartQuantity",
   "decrementCartQuantity", "deleteCartItem", "deleteCartItemsBatch", "clearCart"}

CartOps == TransactionalOps \cup {"saveForLater", "moveToCart"}

ProductsOf(c, userId) == {i.productId : i \in {j \in c : j.userId = userId}}
ActiveProductsOf(c, userId) ==
  {i.productId : i \in {j \in c : j.userId = userId /\ j.status = "active"}}

\* the request was answered with an error, or with no response of the handler
Failed == last.code >= 400 \/ ~last.envelope
Unchanged == cart = last.pre_cart /\ shopping_cart = last.pre_sc

\* the quantity sent is an integer in [1, 100]
RawIntegerInRange(raw) ==
  raw.kind = "number" /\ raw.x2 % 2 = 0 /\ raw.x2 >= 2 * MIN_QUANTITY
  /\ raw.x2 <= 2 * MAX_QUANTITY
RawValue(raw) == raw.x2 \div 2

\* C1 (as claimed): every active line item has quantity <= min(100, countInStock
\* of its product), whatever happened to the stock since.
C1_ActiveWithinStock ==
  \A i \in cart :
    (i.status = "active" /\ ProductExists(i.productId)) =>
      i.quantity <= Min(MAX_QUANTITY, products[i.productId].countInStock)

\* C1 (amended): every stored quantity is in 1..100, and a line item written by
\* add, set-quantity, increment or move-to-cart has quantity <= countInStock of
\* its product as it is at that write.
C1_WrittenWithinStock ==
  /\ \A i \in cart : i.quantity >= MIN_QUANTITY /\ i.quantity <= MAX_QUANTITY
  /\ last.op \in {"createCartItem", "updateCartItemQuantity",
                  "incrementCartQuantity", "moveToCart"} =>
       \A i \in cart \ last.pre_cart :
         /\ ProductExists(i.productId)
         /\ i.quantity <= products[i.productId].countInStock

\* an increment has brought an item to exactly the stock of its product
C1_Witness ==
  /\ last.op = "incrementCartQuantity"
  /\ last.code = 200
  /\ \E i \in cart \ last.pre_cart :
       i.status = "active" /\ i.quantity = products[i.productId].countInStock

\* C2 (as claimed, at a request): a request that starts with every user's
\* shopping_cart equal to the products of that user's active line items ends so.
C2_MirrorEqualsActive ==
  (last.op \in CartOps
   /\ \A u \in Users : last.pre_sc[u] = ActiveProductsOf(last.pre_cart, u)) =>
    \A u \in Users : shopping_cart[u] = ActiveProductsOf(cart, u)

\* C2 (amended): a user's shopping_cart holds the product of every active line
\* item of that user, and holds only products of that user's line items (of any
\* status: save-for-later leaves the product in the set).
C2_MirrorCoversActive ==
  \A u \in Users :
    /\ ActiveProductsOf(cart, u) \subseteq shopping_cart[u]
    /\ shopping_cart[u] \subseteq ProductsOf(cart, u)

\* an item was saved for later and its product is still in the set
C2_Witness ==
  /\ last.op = "saveForLater"
  /\ last.code = 200
  /\ \E i \in cart \ last.pre_cart :
       /\ i.status = "saved_for_later"
       /\ i.productId \in shopping_cart[i.userId]
       /\ i.productId \notin ActiveProductsOf(cart, i.userId)

\* C3: after a transactional cart request the products that entered or left a
\* user's shopping_cart are those of the line items that were created or
\* deleted; a request whose database call failed before the commit, and an add
\* answered 400, change neither the collection nor the set.
C3_CartAndMirrorAtomic ==
  last.op \in TransactionalOps =>
    /\ \A u \in Users :
         /\ shopping_cart[u] \ last.pre_sc[u]
              = ProductsOf(cart, u) \ ProductsOf(last.pre_cart, u)
         /\ last.pre_sc[u] \ shopping_cart[u]
              = ProductsOf(last.pre_cart, u) \ ProductsOf(cart, u)
    /\ last.thrown \in {"read", "save", "mirror"} => Unchanged
    /\ (last.op = "createCartItem" /\ last.code = 400) => Unchanged

\* the write of the set failed after the write of the line item was made
C3_Witness ==
  /\ last.op \in {"createCartItem", "deleteCartItem"}
  /\ last.thrown = "mirror"
  /\ last.code = 500
  /\ Unchanged

\* C4: an add of q for a (user, product) that has a line item of quantity e, with
\* e + q <= 100 and e + q <= stock, answers 200 and leaves exactly one line item
\* for the pair, of quantity e + q and priceAtAdd the product's price now.
C4_SecondAddMerges ==
  (/\ last.op = "createCartItem"
   /\ last.thrown = "none"
   /\ RawIntegerInRange(last.quantity)
   /\ ProductExists(last.productId)) =>
    \A e \in FindByUserProduct(last.pre_cart, last.userId, last.productId) :
      LET total == e.quantity + RawValue(last.quantity)
          now == FindByUserProduct(cart, last.userId, last.productId)
      IN
      (total <= MAX_QUANTITY /\ total <= products[last.productId].countInStock) =>
        /\ last.code = 200
        /\ Cardinality(now) = 1
        /\ \A i \in now : /\ i.quantity = total
                          /\ i.priceAtAdd = products[last.productId].price

\* the second add of a run merged into the item of the first, at a changed price
C4_Witness ==
  /\ last.op = "createCartItem"
  /\ last.code = 200
  /\ \E e \in last.pre_cart, i \in cart :
       /\ i.id = e.id
       /\ i.quantity = e.quantity + RawValue(last.quantity)
       /\ i.priceAtAdd # e.priceAtAdd

\* C5: an add whose quantity is above the product's stock, and any add when the
\* stock is 0, is answered with an error and changes neither the cart
\* collection nor the set.
C5_AddAboveStockRejected ==
  (/\ last.op = "createCartItem"
   /\ ProductExists(last.productId)
   /\ \/ products[last.productId].countInStock = 0
      \/ Gt(Number(last.quantity), products[last.productId].countInStock)) =>
    Failed /\ Unchanged

\* an add of a well-formed quantity was turned down by the stock check
C5_Witness ==
  /\ last.op = "createCartItem"
  /\ ProductExists(last.productId)
  /\ RawIntegerInRange(last.quantity)
  /\ products[last.productId].countInStock > 0
  /\ RawValue(last.quantity) > products[last.productId].countInStock
  /\ last.code = 400
  /\ last.txn = "aborted"
  /\ Unchanged

\* C6 (as claimed): an add whose quantity is sent and is not an integer in
\* [1, 100] is answered with an error and changes no line item.
C6_InvalidQuantityRejected ==
  (/\ last.op = "createCartItem"
   /\ last.quantity.kind # "missing"
   /\ ~RawIntegerInRange(last.quantity)) =>
    last.code >= 400 /\ cart = last.pre_cart

\* C7 (as claimed): an add that hits the duplicate key of the unique index,
\* where the merged quantity would be within the caps, is not answered with an
\* error.
C7_DuplicateKeyRecovered ==
  (/\ last.op = "createCartItem"
   /\ last.thrown = "duplicate_key"
   /\ \A e \in FindByUserProduct(cart, last.userId, last.productId) :
        LET total == e.quantity + RawValue(last.quantity) IN
        total <= MAX_QUANTITY /\ total <= products[last.productId].countInStock) =>
    last.code < 400

\* C8 (as claimed): a transactional cart request that reports a failure has
\* changed neither the cart collection nor the set.
C8_FailureChangesNothing ==
  (last.op \in TransactionalOps /\ Failed) => Unchanged

\* C9 (as claimed): every cart request ends with a response of the handler, in
\* the envelope; no error leaves the handler.
C9_NoErrorEscapes ==
  last.op \in CartOps => last.envelope

C11_IncrementByOne ==
  last.op = "incrementCartQuantity" =>
    /\ \A i \in cart \ last.pre_cart :
         \E e \in last.pre_cart :
           /\ e.id = last.id /\ e.userId = last.userId
           /\ i = [e EXCEPT !.quantity = e.quantity + 1]
           /\ cart \ {i} = last.pre_cart \ {e}
    /\ shopping_cart = last.pre_sc
    /\ last.thrown = "none" =>
         \A e \in FindOwned(last.pre_cart, last.id, last.userId) :
           ProductExists(e.productId) =>
             IF e.quantity < MAX_QUANTITY
                /\ e.quantity + 1 <= products[e.productId].countInStock
             THEN last.code = 200 /\ [e EXCEPT !.quantity = e.quantity + 1] \in cart
             ELSE last.code = 400 /\ Unchanged

\* an increment of an item that stands at the stock of its product, below 100,
\* was turned down
C11_Witness ==
  /\ last.op = "incrementCartQuantity"
  /\ last.code = 400
  /\ Unchanged
  /\ \E e \in FindOwned(cart, last.id, last.userId) :
       /\ ProductExists(e.productId)
       /\ e.quantity = products[e.productId].countInStock
       /\ e.quantity < MAX_QUANTITY

\* C12: a decrement of an owned line item of quantity 1 is answered 400 and the
\* item stays, with quantity 1; a decrement of an item of quantity q > 1, with
\* no database failure, is answered 200 and leaves it with quantity q - 1; a
\* decrement changes nothing else, and no stored quantity is below 1.
C12_DecrementFloor ==
  /\ \A i \in cart : i.quantity >= MIN_QUANTITY
  /\ last.op = "decrementCartQuantity" =>
       /\ \A i \in cart \ last.pre_cart :
            \E e \in last.pre_cart :
              /\ e.id = last.id /\ e.userId = last.userId
              /\ i = [e EXCEPT !.quantity = e.quantity - 1]
              /\ cart \ {i} = last.pre_cart \ {e}
       /\ shopping_cart = last.pre_sc
       /\ \A e \in FindOwned(last.pre_cart, last.id, last.userId) :
            IF e.quantity = MIN_QUANTITY
            THEN last.thrown # "read" => (last.code = 400 /\ Unchanged /\ e \in cart)
            ELSE last.thrown = "none" =>
                   (last.code = 200 /\ [e EXCEPT !.quantity = e.quantity - 1] \in cart)

\* a decrement of an item of quantity 1 was turned down and the item is there
C12_Witness ==
  /\ last.op = "decrementCartQuantity"
  /\ last.code = 400
  /\ \E e \in FindOwned(cart, last.id, last.userId) : e.quantity = MIN_QUANTITY
  /\ Unchanged

\* C13: after a delete answered 200 the line item named is gone from the cart
\* collection and its product is gone from the caller's shopping_cart; every
\* other line item, every other entry of that set and every other user's set is
\* as it was.
C13_DeleteRemovesBoth ==
  (last.op = "deleteCartItem" /\ last.code = 200) =>
    \E e \in FindOwned(last.pre_cart, last.id, last.userId) :
      /\ cart = last.pre_cart \ {e}
      /\ \A i \in cart : i.id # last.id
      /\ e.productId \notin shopping_cart[last.userId]
      /\ shopping_cart = [last.pre_sc EXCEPT ![last.userId] = @ \ {e.productId}]

\* a delete took one of two line items of a user, and the product of the other
\* is still in the set
C13_Witness ==
  /\ last.op = "deleteCartItem"
  /\ last.code = 200
  /\ Cardinality(last.pre_sc[last.userId]) = 2
  /\ Cardinality(shopping_cart[last.userId]) = 1
  /\ \E i \in cart : i.userId = last.userId /\ i.productId \in shopping_cart[last.userId]

\* C14: a clear answered 200 with a status deletes exactly the caller's line
\* items of that status and takes exactly their products out of the caller's
\* set (the products of the caller's other line items stay as they were in it);
\* without a status it deletes all of the caller's line items and empties the
\* set.  Other users' line items and sets are as they were.
C14_ClearScope ==
  (last.op = "clearCart" /\ last.code = 200) =>
    LET u == last.userId
        mine == {i \in last.pre_cart : i.userId = u}
        deleted == IF last.scope = NoScope THEN mine
                   ELSE {i \in mine : i.status = last.scope}
    IN
    /\ deleted # {}
    /\ cart = last.pre_cart \ deleted
    /\ \A v \in Users \ {u} : shopping_cart[v] = last.pre_sc[v]
    /\ IF last.scope = NoScope
       THEN shopping_cart[u] = {}
       ELSE /\ shopping_cart[u] = last.pre_sc[u] \ {i.productId : i \in deleted}
            /\ \A i \in mine \ deleted :
                 i.productId \in shopping_cart[u] <=> i.productId \in last.pre_sc[u]

\* a clear scoped to saved_for_later left an active line item of the caller
\* and its product in the set
C14_Witness ==
  /\ last.op = "clearCart"
  /\ last.code = 200
  /\ last.scope = "saved_for_later"
  /\ cart # last.pre_cart
  /\ \E i \in cart : /\ i.userId = last.userId
                      /\ i.status = "active"
                      /\ i.productId \in shopping_cart[last.userId]

\* C15: save-for-later of an item that is saved_for_later, and move-to-cart of
\* an item that is active, are answered 400 and change nothing.  Move-to-cart
\* changes a line item only when its product exists, the stock is > 0 and the
\* quantity is <= the stock, and then to status active with the product's price
\* now; with no database failure it is answered 200 exactly then, and a
\* move-to-cart answered 4xx changes nothing.  Neither touches the set.
C15_SaveAndMove ==
  /\ last.op = "saveForLater" =>
       /\ shopping_cart = last.pre_sc
       /\ \A e \in FindOwned(last.pre_cart, last.id, last.userId) :
            (e.status = "saved_for_later" /\ last.thrown # "read") =>
              (last.code = 400 /\ Unchanged)
  /\ last.op = "moveToCart" =>
       /\ shopping_cart = last.pre_sc
       /\ (last.code >= 400 /\ last.code < 500) => Unchanged
       /\ \A i \in cart \ last.pre_cart :
            \E e \in FindOwned(last.pre_cart, last.id, last.userId) :
              /\ e.status # "active"
              /\ ProductExists(e.productId)
              /\ products[e.productId].countInStock > 0
              /\ e.quantity <= products[e.productId].countInStock
              /\ i = [e EXCEPT !.status = "active",
                               !.priceAtAdd = products[e.productId].price]
              /\ cart \ {i} = last.pre_cart \ {e}
       /\ \A e \in FindOwned(last.pre_cart, last.id, last.userId) :
            last.thrown = "none" =>
              IF e.status = "active" THEN last.code = 400 /\ Unchanged
              ELSE IF /\ ProductExists(e.productId)
                      /\ products[e.productId].countInStock > 0
                      /\ e.quantity <= products[e.productId].countInStock
              THEN /\ last.code = 200
                   /\ [e EXCEPT !.status = "active",
                                !.priceAtAdd = products[e.productId].price] \in cart
              ELSE last.code \in {400, 404} /\ Unchanged

\* a saved item went back to the cart at a price that had changed since its add
C15_Witness ==
  /\ last.op = "moveToCart"
  /\ last.code = 200
  /\ \E e \in last.pre_cart, i \in cart :
       /\ i.id = e.id
       /\ e.status = "saved_for_later"
       /\ i.status = "active"
       /\ i.priceAtAdd # e.priceAtAdd

\* C16: a cart read answered 200 returns the caller's line items of the status
\* asked for whose product exists, reports a stock issue for exactly those of
\* them whose product's stock is 0 or below the quantity, and a price change for
\* exactly those whose priceAtAdd is not the product's price, with difference =
\* price - priceAtAdd; the read changes no line item and no set.
C16_ReadAlerts ==
  last.op = "getCartItems" =>
    /\ Unchanged
    /\ last.code = 200 =>
         LET returned == {i \in cart : i.id \in last.report.items} IN
         /\ \A i \in returned : i.userId = last.userId /\ ProductExists(i.productId)
         /\ {a.cartItemId : a \in last.report.stockIssues}
              = {i.id : i \in {j \in returned :
                    \/ products[j.productId].countInStock = 0
                    \/ products[j.productId].countInStock < j.quantity}}
         /\ {a.cartItemId : a \in last.report.priceChanges}
              = {i.id : i \in {j \in returned :
                    j.priceAtAdd # products[j.productId].price}}
         /\ \A a \in last.report.priceChanges :
              \E i \in returned :
                /\ i.id = a.cartItemId
                /\ a.difference = products[i.productId].price - i.priceAtAdd

\* a read reported a stock issue for one item and none for an item that takes
\* exactly the stock of its product
C16_Witness ==
  /\ last.op = "getCartItems"
  /\ last.code = 200
  /\ last.report.stockIssues # {}
  /\ \E i \in cart :
       /\ i.id \in last.report.items
       /\ i.quantity = products[i.productId].countInStock
       /\ i.id \notin {a.cartItemId : a \in last.report.stockIssues}

WishlistOps == {"addToMyList", "removeFromMyList", "clearWishlist", "syncWishlistProducts"}

SingleItemOps ==
  {"updateCartItemQuantity", "incrementCartQuantity", "decrementCartQuantity",
   "deleteCartItem", "saveForLater", "moveToCart"}

\* C17: a cart or wishlist request of caller U leaves every cart line item and
\* every wishlist item of another user, and every other user's shopping_cart,
\* as they were.  A request that names the line item of another user, and is
\* otherwise well-formed, is answered 404 and changes nothing; a batch delete
\* answered 200 deletes exactly the caller's line items among the ids named.
C17_OwnershipIsolation ==
  last.op \in CartOps \cup WishlistOps \cup {"getCartItems"} =>
    LET U == last.userId IN
    /\ {i \in cart : i.userId # U} = {i \in last.pre_cart : i.userId # U}
    /\ {w \in mylist : w.userId # U} = {w \in last.pre_mylist : w.userId # U}
    /\ \A v \in Users \ {U} : shopping_cart[v] = last.pre_sc[v]
    /\ (/\ last.op \in SingleItemOps
        /\ last.thrown = "none"
        /\ last.op = "updateCartItemQuantity" => RawIntegerInRange(last.quantity)
        /\ \E i \in last.pre_cart : i.id = last.id /\ i.userId # U) =>
         (last.code = 404 /\ Unchanged /\ mylist = last.pre_mylist)
    /\ (last.op = "deleteCartItemsBatch" /\ last.code = 200) =>
         cart = last.pre_cart \ {i \in last.pre_cart :
                                   i.id \in last.cartItemIds.ids /\ i.userId = U}
    /\ (last.op = "removeFromMyList" /\ last.code = 200) =>
         mylist = last.pre_mylist \ {w \in last.pre_mylist :
                                       w.userId = U /\ w.productId = last.productId}

\* a batch delete named a line item of the caller and one of another user, and
\* the other user's is still there
C17_Witness ==
  /\ last.op = "deleteCartItemsBatch"
  /\ last.code = 200
  /\ cart # last.pre_cart
  /\ \E i \in cart : i.id \in last.cartItemIds.ids /\ i.userId # last.userId

\* C18 (as claimed): under any interleaving of concurrent wishlist adds there
\* is at most one wishlist item for a (user, product), every add is answered
\* 201 or 409, and of the adds for a pair that was not in the wishlist, once
\* all are answered, exactly one got 201.
C18_ExactlyOneCreated ==
  \A u \in Users, p \in Products :
    LET rs == {r \in reqs : r.userId = u /\ r.productId = p}
        blind == {r \in rs : r.existing = {}}
    IN
    /\ Cardinality(FindInMyList(mylist, u, p)) <= 1
    /\ \A r \in rs : r.code \in {0, 201, 409}
    /\ (blind # {} /\ \A r \in blind : r.code # 0) =>
         Cardinality({r \in rs : r.code = 201}) = 1

\* C18 (what the code does): there is at most one wishlist item for a (user, product).
\* For a product whose data pass the wishlist schema (its brand is not empty)
\* every add is answered 201 or 409, and of the adds for a pair that was not in
\* the wishlist, once all are answered, exactly one got 201; an add answered
\* 409 found the item there and left the wishlist as it was.  For a product
\* with an empty brand every add is answered 400 and no item is created.
C18_WishlistAddUnique ==
  /\ \A u \in Users, p \in Products :
       LET rs == {r \in reqs : r.userId = u /\ r.productId = p}
           created == {r \in rs : r.code = 201}
           blind == {r \in rs : r.existing = {}}
       IN
       /\ Cardinality(FindInMyList(mylist, u, p)) <= 1
       /\ Cardinality(created) <= 1
       /\ (\E r \in rs : r.code \in {201, 409}) => FindInMyList(mylist, u, p) # {}
       /\ IF products[p].brand # NoBrand
          THEN /\ \A r \in rs : r.code \in {0, 201, 409}
               /\ (blind # {} /\ \A r \in blind : r.code # 0) =>
                    Cardinality(created) = 1
          ELSE \A r \in blind : r.code \in {0, 400}
  /\ (last.op = "addToMyList" /\ last.code \in {400, 409}) => mylist = last.pre_mylist

\* two adds for a pair both found no item; one was answered 201 and the other
\* hit the unique index and was answered 409
C18_Witness ==
  /\ last.op = "addToMyList"
  /\ last.thrown = "duplicate_key"
  /\ last.code = 409
  /\ \E r \in reqs : /\ r.userId = last.userId
                      /\ r.productId = last.productId
                      /\ r.code = 201
  /\ Cardinality(FindInMyList(mylist, last.userId, last.productId)) = 1

\* C19 (as claimed): for every (page, limit) the listing is not answered with an
\* error of the pagination; limit is clamped into [1, 100] and page into
\* [1, infinity), and a value that is absent or not a number gives the defaults.
C19_PaginationClamped ==
  last.op = "getProductsByField" =>
    /\ last.listing.errors = {}
    /\ last.code # 400
    /\ last.listing.limitNum >= 1 /\ last.listing.limitNum <= MAX_LIMIT
    /\ last.listing.pageNum >= 1
    /\ last.query.page.kind # "number" => last.listing.pageNum = DEFAULT_PAGE
    /\ last.query.limit.kind # "number" => last.listing.limitNum = DEFAULT_LIMIT

\* C20 (as claimed): for numeric minPrice > maxPrice the price filter built is
\* max' = minPrice, min' = maxPrice: both bounds are there, $gte is the smaller
\* and $lte the larger.
C20_PriceBoundsSwapped ==
  (/\ last.op = "getProductsByField"
   /\ last.code \notin {400, 500}
   /\ last.query.minPrice.kind = "number"
   /\ last.query.maxPrice.kind = "number"
   /\ last.query.minPrice.x2 > last.query.maxPrice.x2) =>
    /\ last.listing.filter.gte = [nan |-> FALSE, x2 |-> last.query.maxPrice.x2]
    /\ last.listing.filter.lte = [nan |-> FALSE, x2 |-> last.query.minPrice.x2]

\* C25: every transactional cart handler ends the session it started, on every
\* way out (a committed request, a validation return made with the transaction
\* still open, a rejection after abortTransaction, an exception, an exception
\* of abortTransaction itself), and no transaction of the session stays open.
C25_SessionReleased ==
  last.op \in TransactionalOps =>
    /\ last.session.started
    /\ last.session.ended
    /\ last.session.txn \in {"aborted", "committed"}
    /\ last.session.txn = "committed" <=> last.txn = "committed"

\* a batch delete returned from a validation with its transaction still open,
\* and the session was ended
C25_Witness ==
  /\ last.op = "deleteCartItemsBatch"
  /\ last.code = 400
  /\ last.txn = "in_progress"
  /\ last.session.ended
  /\ last.session.txn = "aborted"

\* C26: in every reachable state each user's shopping_cart set holds exactly
\* the product ids of all of that user's stored line items, whatever their
\* status: save-for-later and move-to-cart leave the set alone, and delete,
\* batch delete and clear take out exactly the ids of the deleted items.
C26_MirrorEqualsAllItems ==
  /\ \A u \in Users : shopping_cart[u] = ProductsOf(cart, u)
  /\ last.op \in {"saveForLater", "moveToCart"} => shopping_cart = last.pre_sc
  /\ (last.op \in {"deleteCartItem", "deleteCartItemsBatch", "clearCart"}
        /\ last.txn = "committed") =>
       \A u \in Users :
         last.pre_sc[u] \ shopping_cart[u] =
           {i.productId : i \in {j \in last.pre_cart \ cart : j.userId = u}}
\* a committed batch delete took out an active item of a user who keeps a
\* saved-for-later item, whose product id stays in the set
C26_Witness ==
  /\ last.op = "deleteCartItemsBatch"
  /\ last.txn = "committed"
  /\ \E i \in last.pre_cart \ cart : i.userId = last.userId /\ i.status = "active"
  /\ \E i \in cart : /\ i.userId = last.userId
                      /\ i.status = "saved_for_later"
                      /\ i.productId \in shopping_cart[last.userId]
  /\ shopping_cart[last.userId] # last.pre_sc[last.userId]

\* the line items that the last request took from saved_for_later to active
Activated ==
  {j \in cart : \E i \in last.pre_cart :
      i.id = j.id /\ i.status = "saved_for_later" /\ j.status = "active"}

\* C27 (as stated): a line item goes from saved_for_later to active only through
\* move-to-cart (add merging into it, set-quantity, increment and decrement
\* leave it saved_for_later), and increment and decrement leave priceAtAdd
\* unchanged.
C27_OnlyMoveToCartActivates ==
  /\ Activated # {} => last.op = "moveToCart"
  /\ last.op \in {"incrementCartQuantity", "decrementCartQuantity"} =>
       \A i \in last.pre_cart, j \in cart :
         i.id = j.id => j.priceAtAdd = i.priceAtAdd

\* C27 (what the code does): a line item goes from saved_for_later to active
\* through move-to-cart, through an add that merges into it and through
\* set-quantity, each of which writes status active; increment and decrement
\* leave both the status and priceAtAdd unchanged.
C27_ActivationPaths ==
  /\ Activated # {} =>
       last.op \in {"moveToCart", "createCartItem", "updateCartItemQuantity"}
  /\ last.op \in {"incrementCartQuantity", "decrementCartQuantity"} =>
       \A i \in last.pre_cart, j \in cart :
         i.id = j.id => j.status = i.status /\ j.priceAtAdd = i.priceAtAdd
  /\ last.op \in {"createCartItem", "updateCartItemQuantity"} =>
       \A i \in last.pre_cart, j \in cart :
         (i.id = j.id /\ i # j) => j.status = "active"

\* an increment was committed on a saved-for-later item, which stays saved for
\* later with the price it had
C27_Witness ==
  /\ last.op = "incrementCartQuantity"
  /\ last.txn = "committed"
  /\ \E i \in last.pre_cart, j \in cart :
       /\ i.id = j.id
       /\ i.id = last.id
       /\ i.status = "saved_for_later"
       /\ j.status = "saved_for_later"
       /\ j.quantity = i.quantity + 1

\* C29: the summary of a cart read has estimatedTotal = the sum over the
\* returned line items of quantity x the live price of the product, for every
\* live price, 0 included, and subtotal = the sum of quantity x priceAtAdd.
C29_EstimatedTotalUsesLivePrice ==
  (last.op = "getCartItems" /\ last.code = 200) =>
    LET returned == {i \in cart : i.id \in last.report.items} IN
      /\ last.report.estimatedTotal =
           Sum([i \in returned |-> i.quantity * products[i.productId].price])
      /\ last.report.subtotal =
           Sum([i \in returned |-> i.quantity * i.priceAtAdd])

\* C28: with only maxPrice = m >= 0 the price filter built is price <= m with no
\* lower bound, with only minPrice = n >= 0 it is price >= n with no upper
\* bound, and no bound of a filter built is ever null.
C28_SingleBoundOneSided ==
  (last.op = "getProductsByField" /\ last.code \notin {400, 500}) =>
    LET q == last.query
        filter == last.listing.filter
    IN
    /\ (q.minPrice = Missing /\ q.maxPrice.kind = "number" /\ q.maxPrice.x2 >= 0) =>
         /\ filter.lte = [nan |-> FALSE, x2 |-> q.maxPrice.x2]
         /\ filter.gte = Unset
    /\ (q.maxPrice = Missing /\ q.minPrice.kind = "number" /\ q.minPrice.x2 >= 0) =>
         /\ filter.gte = [nan |-> FALSE, x2 |-> q.minPrice.x2]
         /\ filter.lte = Unset
    /\ filter.gte # Null
    /\ filter.lte # Null

\* the products of the base filter of the last listing request
InBase == {p \in Products : ProductExists(p) /\ products[p].catId = last.fieldValue}

\* C21: the availableFilters of a successful listing depend only on the base
\* filter and the stored products, never on the query parameters: they are the
\* non-empty brands and the price range of all products of the base filter
\* (the empty facets if the facet queries themselves failed), and they are the
\* same as those of the request with the same base filter and no narrowing.
C21_FacetsFromBaseFilter ==
  (last.op = "getProductsByField" /\ last.code = 200) =>
    LET facets == last.listing.availableFilters
        prices == {products[p].price : p \in InBase}
        plain == getProductsByField(last.fieldValue,
                                    [NoQuery EXCEPT !.page = last.query.page],
                                    last.thrown)
    IN
    /\ last.thrown = "facets" => facets = EmptyFacets
    /\ last.thrown # "facets" =>
         /\ facets.brands = {products[p].brand : p \in InBase} \ {NoBrand}
         /\ InBase = {} => facets.priceRange = [minPrice |-> 0, maxPrice |-> 0]
         /\ InBase # {} =>
              /\ facets.priceRange.minPrice \in prices
              /\ facets.priceRange.maxPrice \in prices
              /\ \A x \in prices : /\ facets.priceRange.minPrice <= x
                                    /\ x <= facets.priceRange.maxPrice
    /\ plain.statusCode = 200 => plain.availableFilters = facets

\* a listing narrowed by price and brand to no product at all succeeded (on a
\* later page) and still returned the brand of its category
C21_Witness ==
  /\ last.op = "getProductsByField"
  /\ last.code = 200
  /\ last.thrown = "none"
  /\ last.query.brand # NoBrand
  /\ last.listing.filter.set
  /\ last.listing.totalProducts = 0
  /\ last.listing.availableFilters.brands # {}

\* the wishlist items of the user of the last request, before and after it
MineBefore == {w \in last.pre_mylist : w.userId = last.userId}
MineAfter == {w \in mylist : w.userId = last.userId}

\* the item that has the id of w after the last request
After(w) == CHOOSE x \in mylist : x.id = w.id

SyncAnswered == last.op = "syncWishlistProducts" /\ last.code = 200

\* the snapshot equals the live product on every synced field
EqualsLive(w, live) ==
  /\ w.productTitle = live.name
  /\ w.price = live.price
  /\ w.oldPrice = Value(live.oldPrice)
  /\ w.discount = live.discount
  /\ w.rating = live.rating
  /\ w.productImage = live.image

\* C22 (as stated): sync leaves a snapshot unchanged when the live product
\* equals it on title, price, oldPrice, discount, rating and image, and
\* otherwise gives the differing fields the live product's values; the brand
\* and the (userId, productId) pair never change.
C22_SyncCopiesLiveFields ==
  (SyncAnswered /\ last.thrown = "none") =>
    \A w \in MineBefore :
      ProductExists(w.productId) =>
        LET live == products[w.productId] IN
        /\ \E x \in mylist : x.id = w.id
        /\ EqualsLive(w, live) => After(w) = w
        /\ ~EqualsLive(w, live) =>
             After(w) = [w EXCEPT !.productTitle = live.name, !.price = live.price,
                                  !.oldPrice = Value(live.oldPrice),
                                  !.discount = live.discount, !.rating = live.rating,
                                  !.productImage = live.image]

\* C22 (what the code does): after a sync each snapshot of an existing product
\* has the live title, price, discount and rating, the live oldPrice with 0
\* stored as null, and the live first image, or the image it had if the
\* product has none; a snapshot that already has these values is unchanged,
\* and the brand, the id and the (userId, productId) pair never change.
C22_SyncRefreshesSnapshot ==
  SyncAnswered =>
    \A w \in MineBefore :
      /\ \E x \in mylist : x.id = w.id
      /\ After(w).brand = w.brand
      /\ After(w).userId = w.userId
      /\ After(w).productId = w.productId
      /\ (ProductExists(w.productId) /\ last.thrown = "none") =>
           LET live == products[w.productId] IN
           /\ After(w).productTitle = live.name
           /\ After(w).price = live.price
           /\ After(w).discount = live.discount
           /\ After(w).rating = live.rating
           /\ After(w).oldPrice =
                IF live.oldPrice = 0 THEN NullValue ELSE Value(live.oldPrice)
           /\ After(w).productImage =
                IF live.image = NoImage THEN w.productImage ELSE live.image
           /\ EqualsLive(w, live) => After(w) = w

\* a sync changed the price or the title of a snapshot whose brand is not the
\* live brand, and the brand snapshot stayed
C22_Witness ==
  /\ SyncAnswered
  /\ last.thrown = "none"
  /\ \E w \in MineBefore :
       /\ ProductExists(w.productId)
       /\ After(w) # w
       /\ w.brand # products[w.productId].brand
       /\ After(w).brand = w.brand
       /\ After(w).rating = w.rating

\* the items of the user whose product no longer exists
Orphans == {w \in MineBefore : ~ProductExists(w.productId)}

\* C23: a sync counts and reports an item whose product no longer exists as a
\* failure and neither deletes nor modifies it; after the sync the user has
\* the same wishlist items as before, nobody else's items have changed, and
\* success + failed is the number of the user's items.
C23_OrphansKeptAndCounted ==
  SyncAnswered =>
    /\ Orphans \subseteq mylist
    /\ {w.productId : w \in Orphans} \subseteq last.results.errors
    /\ last.results.failed >= Cardinality(Orphans)
    /\ last.thrown = "none" => last.results.failed = Cardinality(Orphans)
    /\ {<<w.id, w.userId, w.productId>> : w \in MineAfter} =
         {<<w.id, w.userId, w.productId>> : w \in MineBefore}
    /\ mylist \ MineAfter = last.pre_mylist \ MineBefore
    /\ last.results.success + last.results.failed = Cardinality(MineBefore)

\* a sync met an item whose product is gone and an item it updated
C23_Witness ==
  /\ SyncAnswered
  /\ Orphans # {}
  /\ last.results.failed = 1
  /\ last.results.success = 1
  /\ last.results.updated # {}

\* C24: the stats of a wishlist are totalItems = the number of the user's
\* items, totalValue = the sum of their prices, totalSavings = the sum of
\* oldPrice - price over the items with oldPrice > price only, itemsOnSale =
\* the number of items with discount > 0; for an empty wishlist each is 0 and
\* the answer is a success.
C24_StatsMatchReference ==
  (last.op = "getWishlistStats" /\ last.thrown = "none") =>
    LET reduced == {w \in MineAfter : ~w.oldPrice.null /\ w.oldPrice.v > w.price} IN
    /\ last.code = 200
    /\ last.stats.totalItems = Cardinality(MineAfter)
    /\ last.stats.totalValue = Sum([w \in MineAfter |-> w.price])
    /\ last.stats.totalSavings = Sum([w \in reduced |-> w.oldPrice.v - w.price])
    /\ last.stats.itemsOnSale = Cardinality({w \in MineAfter : w.discount > 0})
    /\ MineAfter = {} => last.stats = NoStats

\* stats over a wishlist with an item that has a saving and an item whose old
\* price is below its price
C24_Witness ==
  /\ last.op = "getWishlistStats"
  /\ last.code = 200
  /\ last.stats.totalItems = 2
  /\ last.stats.totalSavings > 0
  /\ \E w \in MineAfter : ~w.oldPrice.null /\ w.oldPrice.v < w.price

\* C30: sync is idempotent: a sync that follows a sync, with no product changed
\* in between, writes nothing and reports an empty 'updated' list, and a sync
\* that follows the add of an item, with the product unchanged, reports no
\* update for that item.
C30_SyncIdempotent ==
  /\ (SyncAnswered /\ last.thrown = "none") =>
       LET again == syncWishlistProducts(last.userId, "none") IN
       /\ again.list = mylist
       /\ again.results.updated = {}
  /\ (last.op = "addToMyList" /\ last.code = 201) =>
       last.productId \notin syncWishlistProducts(last.userId, "none").results.updated

====
